---- MODULE Spec2Model ----
(***************************************************************************)
(* Model of update_remote_settings_records.mjs: one process run reads the  *)
(* RemoteSettings records, flattens the MDN browser data, reconciles the   *)
(* two lists in two passes (applying each create / update / delete as it   *)
(* is decided) and finally asks for a review or approves the changes.      *)
(* The RemoteSettings server is modelled by the list of its records and    *)
(* the status of the collection; two successive runs of the script are     *)
(* modelled so that properties relating a run to the next can be stated.   *)
(***************************************************************************)
EXTENDS Integers, Sequences, FiniteSets, TLC

(* ---------------------------------------------------------------------- *)
(* Program constants                                                       *)
(* ---------------------------------------------------------------------- *)
SUCCESS_RET_VALUE == 0
FAILURE_RET_VALUE == 1
VALID_ENVIRONMENTS == {"dev", "stage", "prod"}

HTTP_OK == 200
HTTP_CREATED == 201
\* what the server answers when it refuses or fails a request
FailureStatuses == {503}

(* ---------------------------------------------------------------------- *)
(* Bounds of the model                                                     *)
(* ---------------------------------------------------------------------- *)
MaxRecords == 2
MaxBrowsers == 1
MaxReleases == 2
MaxFailures == 1

(* ---------------------------------------------------------------------- *)
(* Value domains the inputs are drawn from                                 *)
(* ---------------------------------------------------------------------- *)
Digits == {"0", "1", "2", "3", "4", "5", "6", "7", "8", "9"}

\* A version (a key of `releases`) is a string, kept as its characters.
V90 == <<"9", "0">>
V91 == <<"9", "1">>
VPreview == <<"p">>
V1_5 == <<"1", ".", "5">>

BrowserOrder == <<"chrome", "firefox">>
SourceBrowserIds ==
  {BrowserOrder[k] : k \in 1..(IF MaxBrowsers < 2 THEN MaxBrowsers ELSE 2)}
NameOf(browserid) == IF browserid = "chrome" THEN "Chrome" ELSE "Firefox"

SourceVersions == {V90, V91, VPreview}
SourceStatuses == {"current", "retired"}
Environments == {"", "dev", "stage", "qa"}
DryRunValues == {"", "1"}

VARIABLES
  store,        \* server: the records of the collection, in listing order
  nextId,       \* server: the next record id it assigns
  collStatus,   \* server: the status of the collection
  compatData,   \* the published MDN data, in the order of its JSON text
  run,          \* "first" or "second" run of the script
  env,          \* process.env of the current run
  pc,           \* position of the current run
  records,      \* update(): const records
  browsersMdn,  \* update(): const browsersMdn
  operations,   \* update(): const operations
  i,            \* index of the first loop of update()
  j,            \* index of the second loop of update()
  refetched,    \* update(): whether refreshedRecords was obtained
  calls,        \* the client functions called by the current run, in order
  requests,     \* the HTTP requests sent by the current run, in order
  exitCode,     \* the code given to process.exit, -1 while running
  error,        \* the error update() rejected with, "" if none
  failures,     \* number of mutating requests the server refused so far
  store0,       \* history: the store when the current run started
  collStatus0,  \* history: the collection status when the run started
  prev          \* history: summary of the previous run

vars == <<store, nextId, collStatus, compatData, run, env, pc, records,
          browsersMdn, operations, i, j, refetched, calls, requests,
          exitCode, error, failures, store0, collStatus0, prev>>

(* ---------------------------------------------------------------------- *)
(* Helpers                                                                 *)
(* ---------------------------------------------------------------------- *)
SeqsUpTo(S, n) == UNION {[1..k -> S] : k \in 0..n}

RECURSIVE SelectIdx(_, _, _)
\* the subsequence of s without its element at index k
SelectIdx(s, k, n) ==
  IF n > Len(s) THEN <<>>
  ELSE IF n = k THEN SelectIdx(s, k, n + 1)
  ELSE <<s[n]>> \o SelectIdx(s, k, n + 1)

RemoveAt(s, k) == SelectIdx(s, k, 1)

EmptyOperations == [added |-> <<>>, updated |-> <<>>, removed |-> <<>>]

NoPrev == [ran |-> FALSE, dry |-> FALSE, reconciled |-> FALSE,
           exitCode |-> -1, operations |-> EmptyOperations, calls |-> <<>>,
           store0 |-> <<>>]

(* ---------------------------------------------------------------------- *)
(* getFlatBrowsersMdnData (lines 313-356)                                  *)
(* compatData.browsers is modelled by the sequence of its properties in    *)
(* the order the JSON text has them: <<[browserid, name, releases]>>,      *)
(* releases being the sequence of [version, status] of the text.           *)
(* A missing name or status is the empty string (both are falsy).          *)
(* ---------------------------------------------------------------------- *)
DigitValue(c) ==
  CASE c = "0" -> 0 [] c = "1" -> 1 [] c = "2" -> 2 [] c = "3" -> 3
    [] c = "4" -> 4 [] c = "5" -> 5 [] c = "6" -> 6 [] c = "7" -> 7
    [] c = "8" -> 8 [] c = "9" -> 9

RECURSIVE NumericValue(_)
\* the number a string of digits denotes
NumericValue(key) ==
  IF key = <<>> THEN 0
  ELSE NumericValue(SubSeq(key, 1, Len(key) - 1)) * 10
       + DigitValue(key[Len(key)])

\* a property key that is an integer index: the canonical decimal form of
\* an integer (the keys modelled are far below the limit 2^32 - 2)
IsIntegerKey(key) ==
  /\ key # <<>>
  /\ \A k \in 1..Len(key) : key[k] \in Digits
  /\ Len(key) = 1 \/ key[1] # "0"

RECURSIVE Ascending(_)
\* entries with integer keys, by ascending value of the key
Ascending(entries) ==
  IF entries = <<>> THEN <<>>
  ELSE LET m == CHOOSE k \in 1..Len(entries) :
                  \A l \in 1..Len(entries) :
                    NumericValue(entries[k].version)
                      <= NumericValue(entries[l].version)
       IN <<entries[m]>> \o Ascending(RemoveAt(entries, m))

IntegerKeyed(release) == IsIntegerKey(release.version)
OtherKeyed(release) == ~IsIntegerKey(release.version)

\* Object.entries(browserInfo.releases), lines 320-322: an object
\* enumerates its integer keys first, in ascending order, and then its
\* other string keys in the order they were added
ObjectEntries(releases) ==
  Ascending(SelectSeq(releases, IntegerKeyed))
    \o SelectSeq(releases, OtherKeyed)

\* releaseNumber.match(/\d/)
MatchDigit(releaseNumber) ==
  \E k \in 1..Len(releaseNumber) : releaseNumber[k] \in Digits

\* a slip: the guard of lines 331-337 is left out
ReleaseIsValidWithoutStatus(browserInfo, release) ==
  /\ browserInfo.name # ""
  /\ release.version # <<>> /\ MatchDigit(release.version)

\* the three `continue` guards of the inner loop
ReleaseIsValid(browserInfo, release) ==
  /\ browserInfo.name # ""
  /\ release.status # ""
  /\ release.version # <<>> /\ MatchDigit(release.version)

RECURSIVE FlatReleases(_, _)
\* the inner loop over Object.entries(browserInfo.releases), from index n
FlatReleases(browserInfo, n) ==
  IF n > Len(browserInfo.releases) THEN <<>>
  ELSE LET release == ObjectEntries(browserInfo.releases)[n] IN
       (IF ReleaseIsValid(browserInfo, release)
        THEN <<[browserid |-> browserInfo.browserid,
                name |-> browserInfo.name,
                status |-> release.status,
                version |-> release.version]>>
        ELSE <<>>) \o FlatReleases(browserInfo, n + 1)

RECURSIVE FlatBrowsers(_, _)
\* the outer loop over Object.entries(compatData.browsers), from index n;
\* no browser id is an integer key, the order is the order of the text
FlatBrowsers(data, n) ==
  IF n > Len(data) THEN <<>>
  ELSE FlatReleases(data[n], 1) \o FlatBrowsers(data, n + 1)

getFlatBrowsersMdnData(data) == FlatBrowsers(data, 1)

(* ---------------------------------------------------------------------- *)
(* Inputs                                                                  *)
(* ---------------------------------------------------------------------- *)
\* the keys of a JavaScript object are distinct
DistinctVersions(releases) ==
  \A a, b \in 1..Len(releases) :
    a # b => releases[a].version # releases[b].version

DistinctBrowserIds(data) ==
  \A a, b \in 1..Len(data) : a # b => data[a].browserid # data[b].browserid

ReleaseLists ==
  {rs \in SeqsUpTo([version : SourceVersions, status : SourceStatuses],
                   MaxReleases) : DistinctVersions(rs)}

BrowserInfos ==
  {[browserid |-> b, name |-> NameOf(b), releases |-> rs] :
     b \in SourceBrowserIds, rs \in ReleaseLists}

CompatDatas ==
  {d \in SeqsUpTo(BrowserInfos, MaxBrowsers) : DistinctBrowserIds(d)}

\* the stored records: for each key of SyncedKeys the record the script
\* writes and the ones that differ from it by the name or by the status, a
\* record that was stored as retired, and a record of a browser that the
\* published data may not have at all
SyncedKeys ==
  {[browserid |-> "chrome", version |-> V90],
   [browserid |-> "chrome", version |-> V91]}

RecordDatas ==
  UNION {{[browserid |-> k.browserid, version |-> k.version,
           name |-> NameOf(k.browserid), status |-> "current"],
          [browserid |-> k.browserid, version |-> k.version,
           name |-> "Old", status |-> "current"],
          [browserid |-> k.browserid, version |-> k.version,
           name |-> NameOf(k.browserid), status |-> "beta"]} : k \in SyncedKeys}
  \cup {[browserid |-> "chrome", version |-> V90, name |-> "Chrome",
          status |-> "retired"],
         [browserid |-> "firefox", version |-> V90, name |-> "Firefox",
          status |-> "current"]}

\* the server gave the record at position k the id k
WithIds(datas) ==
  [k \in 1..Len(datas) |->
     [id |-> k, browserid |-> datas[k].browserid, version |-> datas[k].version,
      name |-> datas[k].name, status |-> datas[k].status]]

InitialStores == {WithIds(ds) : ds \in SeqsUpTo(RecordDatas, MaxRecords)}

Init ==
  /\ store \in InitialStores
  /\ nextId = Len(store) + 1
  /\ collStatus = "signed"
  /\ compatData \in CompatDatas
  /\ run = "first"
  /\ env \in [AUTHORIZATION : {TRUE}, SERVER : {TRUE},
              ENVIRONMENT : Environments, DRY_RUN : {""}]
  /\ pc = "boot"
  /\ records = <<>>
  /\ browsersMdn = <<>>
  /\ operations = EmptyOperations
  /\ i = 1
  /\ j = 1
  /\ refetched = FALSE
  /\ calls = <<>>
  /\ requests = <<>>
  /\ exitCode = -1
  /\ error = ""
  /\ failures = 0
  /\ store0 = store
  /\ collStatus0 = collStatus
  /\ prev = NoPrev

(* ---------------------------------------------------------------------- *)
(* The RemoteSettings server, as the script's requests see it              *)
(* ---------------------------------------------------------------------- *)
NoRecord == [id |-> 0, browserid |-> "", version |-> <<>>, name |-> "",
             status |-> ""]
NoEntry == [browserid |-> "", name |-> "", status |-> "", version |-> <<>>]

\* the statuses the server may answer to a mutating request, given the
\* status that means success
Answers(success) ==
  {success} \cup (IF failures < MaxFailures THEN FailureStatuses ELSE {})

\* the statuses the server may answer to the list request; a failed list
\* request ends the run, so that a run has at most one
ListAnswers == {HTTP_OK} \cup FailureStatuses

Request(method, id, data, patch, answer) ==
  [method |-> method, id |-> id, data |-> data, patch |-> patch,
   status |-> answer]

\* POST RECORDS_ENDPOINT {data: browserMdn}: a created record gets a new id
ServerPost(st, data, answer) ==
  IF answer = HTTP_CREATED
  THEN Append(st, [id |-> nextId, browserid |-> data.browserid,
                   version |-> data.version, name |-> data.name,
                   status |-> data.status])
  ELSE st

\* PUT RECORDS_ENDPOINT/id {data: browserMdn}: the record's data is replaced
ServerPut(st, id, data, answer) ==
  IF answer = HTTP_OK
  THEN [k \in 1..Len(st) |->
          IF st[k].id = id
          THEN [id |-> id, browserid |-> data.browserid,
                version |-> data.version, name |-> data.name,
                status |-> data.status]
          ELSE st[k]]
  ELSE st

\* DELETE RECORDS_ENDPOINT/id
ServerDelete(st, id, answer) ==
  IF answer = HTTP_OK /\ \E k \in 1..Len(st) : st[k].id = id
  THEN RemoveAt(st, CHOOSE k \in 1..Len(st) : st[k].id = id)
  ELSE st

\* PATCH COLLECTION_ENDPOINT {data: {status}}
ServerPatch(cs, status, answer) == IF answer = HTTP_OK THEN status ELSE cs

(* ---------------------------------------------------------------------- *)
(* The client functions (lines 157-311).  Each yields what it returns and  *)
(* the server state and request log it leaves.                             *)
(* ---------------------------------------------------------------------- *)
\* line 50
IS_DRY_RUN == env.DRY_RUN = "1"

Outcome(succesful, st, id, cs, reqs) ==
  [succesful |-> succesful, store |-> st, nextId |-> id, collStatus |-> cs,
   requests |-> reqs]

\* a slip: the dry run returns nothing (`return;`), which is falsy
createRecordDryReturnsNothing(browserMdn, answer) ==
  IF IS_DRY_RUN
  THEN Outcome(FALSE, store, nextId, collStatus, requests)
  ELSE Outcome(answer = HTTP_CREATED,
               ServerPost(store, browserMdn, answer),
               IF answer = HTTP_CREATED THEN nextId + 1 ELSE nextId,
               collStatus,
               Append(requests, Request("POST", 0, browserMdn, "", answer)))

\* lines 178-201
createRecord(browserMdn, answer) ==
  IF IS_DRY_RUN
  THEN Outcome(TRUE, store, nextId, collStatus, requests)
  ELSE Outcome(answer = HTTP_CREATED,
               ServerPost(store, browserMdn, answer),
               IF answer = HTTP_CREATED THEN nextId + 1 ELSE nextId,
               collStatus,
               Append(requests, Request("POST", 0, browserMdn, "", answer)))

\* lines 211-234
updateRecord(record, browserMdn, answer) ==
  IF IS_DRY_RUN
  THEN Outcome(TRUE, store, nextId, collStatus, requests)
  ELSE Outcome(answer = HTTP_OK,
               ServerPut(store, record.id, browserMdn, answer),
               nextId, collStatus,
               Append(requests,
                      Request("PUT", record.id, browserMdn, "", answer)))

\* a slip: the dry run is not looked at before the request is sent
deleteRecordIgnoresDryRun(record, answer) ==
  Outcome(answer = HTTP_OK,
          ServerDelete(store, record.id, answer),
          nextId, collStatus,
          Append(requests, Request("DELETE", record.id, NoEntry, "", answer)))

\* lines 242-264
deleteRecord(record, answer) ==
  IF IS_DRY_RUN
  THEN Outcome(TRUE, store, nextId, collStatus, requests)
  ELSE Outcome(answer = HTTP_OK,
               ServerDelete(store, record.id, answer),
               nextId, collStatus,
               Append(requests,
                      Request("DELETE", record.id, NoEntry, "", answer)))

\* lines 269-287
requestReview(answer) ==
  IF IS_DRY_RUN
  THEN Outcome(TRUE, store, nextId, collStatus, requests)
  ELSE Outcome(answer = HTTP_OK, store, nextId,
               ServerPatch(collStatus, "to-review", answer),
               Append(requests,
                      Request("PATCH", 0, NoEntry, "to-review", answer)))

\* lines 293-311
approveChanges(answer) ==
  IF IS_DRY_RUN
  THEN Outcome(TRUE, store, nextId, collStatus, requests)
  ELSE Outcome(answer = HTTP_OK, store, nextId,
               ServerPatch(collStatus, "to-sign", answer),
               Append(requests,
                      Request("PATCH", 0, NoEntry, "to-sign", answer)))

Call(fn, record, entry, succesful, pass) ==
  [fn |-> fn, record |-> record, entry |-> entry, succesful |-> succesful,
   pass |-> pass]

(* ---------------------------------------------------------------------- *)
(* update() (lines 68-155)                                                 *)
(* ---------------------------------------------------------------------- *)
\* a slip: the version is not compared
SameKeyBrowserOnly(record, browser) ==
  record.browserid = browser.browserid

\* the predicate of records.find (lines 76-78) and browsersMdn.find (111-113)
SameKey(record, browser) ==
  /\ record.browserid = browser.browserid
  /\ record.version = browser.version

\* a slip: the last record that matches is taken, not the first
FindRecordLast(recs, browserMdn) ==
  IF \E k \in 1..Len(recs) : SameKey(recs[k], browserMdn)
  THEN CHOOSE k \in 1..Len(recs) :
         /\ SameKey(recs[k], browserMdn)
         /\ \A m \in (k + 1)..Len(recs) : ~SameKey(recs[m], browserMdn)
  ELSE 0

\* records.find (lines 75-79): index of the first record that matches, 0 if
\* there is none
FindRecord(recs, browserMdn) ==
  IF \E k \in 1..Len(recs) : SameKey(recs[k], browserMdn)
  THEN CHOOSE k \in 1..Len(recs) :
         /\ SameKey(recs[k], browserMdn)
         /\ \A m \in 1..(k - 1) : ~SameKey(recs[m], browserMdn)
  ELSE 0

\* a slip: the second loop looks only at the entries that are not retired
FindBrowserNotRetired(browsers, record) ==
  IF \E k \in 1..Len(browsers) :
       SameKey(record, browsers[k]) /\ browsers[k].status # "retired"
  THEN CHOOSE k \in 1..Len(browsers) :
         SameKey(record, browsers[k]) /\ browsers[k].status # "retired"
  ELSE 0

\* a slip: the second loop looks for the browser only, not for the version
FindBrowserIdOnly(browsers, record) ==
  IF \E k \in 1..Len(browsers) : browsers[k].browserid = record.browserid
  THEN CHOOSE k \in 1..Len(browsers) :
         browsers[k].browserid = record.browserid
  ELSE 0

\* browsersMdn.find (lines 110-114)
FindBrowser(browsers, record) ==
  IF \E k \in 1..Len(browsers) : SameKey(record, browsers[k])
  THEN CHOOSE k \in 1..Len(browsers) :
         /\ SameKey(record, browsers[k])
         /\ \A m \in 1..(k - 1) : ~SameKey(record, browsers[m])
  ELSE 0

\* a slip: the name is not compared
NeedsUpdateStatusOnly(rsRecord, browserMdn) ==
  rsRecord.status # browserMdn.status

\* a slip: the record's name is compared with the entry's browserid
NeedsUpdateWrongField(rsRecord, browserMdn) ==
  \/ rsRecord.status # browserMdn.status
  \/ rsRecord.name # browserMdn.browserid

\* lines 98-101
NeedsUpdate(rsRecord, browserMdn) ==
  \/ rsRecord.status # browserMdn.status
  \/ rsRecord.name # browserMdn.name

\* the effect of one awaited client call on the server and on the logs
Applied(out, call) ==
  /\ store' = out.store
  /\ nextId' = out.nextId
  /\ collStatus' = out.collStatus
  /\ requests' = out.requests
  /\ calls' = Append(calls, call)
  /\ failures' = IF Len(out.requests) > Len(requests)
                    /\ out.requests[Len(out.requests)].status \in FailureStatuses
                 THEN failures + 1 ELSE failures

\* process.exit(code), lines 26-45 and 61
Exit(code) ==
  /\ pc' = "exit"
  /\ exitCode' = code
  /\ UNCHANGED error

\* lines 63-66: update() rejected with e
Rejected(e) ==
  /\ pc' = "exit"
  /\ exitCode' = FAILURE_RET_VALUE
  /\ error' = e

\* a slip: the list is tested for the status of a creation
ListFailedUnlessCreated(answer) == answer # HTTP_CREATED

\* a slip: the status of the list is not looked at
ListFailedNever(answer) == FALSE

\* line 163
ListFailed(answer) == answer # HTTP_OK

\* what a client call may be answered; a dry run sends nothing
CallAnswers(success) == IF IS_DRY_RUN THEN {success} ELSE Answers(success)

ServerUnchanged == UNCHANGED <<store, nextId, collStatus>>
InputsUnchanged == UNCHANGED <<compatData, run, store0, collStatus0, prev>>

\* lines 24-27
BootMissingAuthorization ==
  /\ pc = "boot"
  /\ env' = [env EXCEPT !.AUTHORIZATION = FALSE]
  /\ Exit(FAILURE_RET_VALUE)
  /\ ServerUnchanged /\ InputsUnchanged
  /\ UNCHANGED <<records, browsersMdn, operations, i, j, refetched, calls,
                 requests, failures>>

\* lines 29-34
BootMissingServer ==
  /\ pc = "boot"
  /\ env' = [env EXCEPT !.SERVER = FALSE]
  /\ Exit(FAILURE_RET_VALUE)
  /\ ServerUnchanged /\ InputsUnchanged
  /\ UNCHANGED <<records, browsersMdn, operations, i, j, refetched, calls,
                 requests, failures>>

\* lines 36-46
BootInvalidEnvironment ==
  /\ pc = "boot"
  /\ env.ENVIRONMENT # ""
  /\ env.ENVIRONMENT \notin VALID_ENVIRONMENTS
  /\ UNCHANGED env
  /\ Exit(FAILURE_RET_VALUE)
  /\ ServerUnchanged /\ InputsUnchanged
  /\ UNCHANGED <<records, browsersMdn, operations, i, j, refetched, calls,
                 requests, failures>>

\* lines 24-59 when every check passes: update() is called
BootOk ==
  /\ pc = "boot"
  /\ env.ENVIRONMENT = "" \/ env.ENVIRONMENT \in VALID_ENVIRONMENTS
  /\ \E d \in DryRunValues : env' = [env EXCEPT !.DRY_RUN = d]
  /\ pc' = "list"
  /\ ServerUnchanged /\ InputsUnchanged
  /\ UNCHANGED <<records, browsersMdn, operations, i, j, refetched, calls,
                 requests, exitCode, error, failures>>

\* line 69 with getRSRecords (lines 157-170)
GetRSRecords ==
  /\ pc = "list"
  /\ \E answer \in ListAnswers :
       /\ requests' = Append(requests, Request("GET", 0, NoEntry, "", answer))
       /\ IF ListFailed(answer)
          THEN /\ Rejected("Can't retrieve records")
               /\ UNCHANGED records
          ELSE /\ records' = store
               /\ pc' = "source"
               /\ UNCHANGED <<exitCode, error>>
  /\ ServerUnchanged /\ InputsUnchanged
  /\ UNCHANGED <<env, browsersMdn, operations, i, j, refetched, calls,
                 failures>>

\* line 72
GetFlatBrowsersMdnData ==
  /\ pc = "source"
  /\ browsersMdn' = getFlatBrowsersMdnData(compatData)
  /\ pc' = "pass1"
  /\ ServerUnchanged /\ InputsUnchanged
  /\ UNCHANGED <<env, records, operations, i, j, refetched, calls, requests,
                 exitCode, error, failures>>

\* lines 315-316: the download of data.json fails, update() rejects
GetFlatBrowsersMdnDataThrows ==
  /\ pc = "source"
  /\ Rejected("fetch failed")
  /\ ServerUnchanged /\ InputsUnchanged
  /\ UNCHANGED <<env, records, browsersMdn, operations, i, j, refetched,
                 calls, requests, failures>>

InPass1 == pc = "pass1" /\ i <= Len(browsersMdn)

\* lines 80-88, a retired entry that has a record
Pass1DeleteRetired ==
  /\ InPass1
  /\ LET browserMdn == browsersMdn[i]
         k == FindRecord(records, browserMdn) IN
       /\ browserMdn.status = "retired"
       /\ k # 0
       /\ \E answer \in CallAnswers(HTTP_OK) :
            LET out == deleteRecord(records[k], answer) IN
              /\ Applied(out, Call("deleteRecord", records[k], NoEntry,
                                   out.succesful, 1))
              /\ operations' =
                   IF out.succesful
                   THEN [operations EXCEPT !.removed = Append(@, records[k])]
                   ELSE operations
  /\ i' = i + 1
  /\ InputsUnchanged
  /\ UNCHANGED <<env, pc, records, browsersMdn, j, refetched, exitCode,
                 error>>

\* lines 80-88, a retired entry that has no record
Pass1SkipRetired ==
  /\ InPass1
  /\ browsersMdn[i].status = "retired"
  /\ FindRecord(records, browsersMdn[i]) = 0
  /\ i' = i + 1
  /\ ServerUnchanged /\ InputsUnchanged
  /\ UNCHANGED <<env, pc, records, browsersMdn, operations, j, refetched,
                 calls, requests, exitCode, error, failures>>

\* lines 90-96
Pass1Create ==
  /\ InPass1
  /\ LET browserMdn == browsersMdn[i] IN
       /\ browserMdn.status # "retired"
       /\ FindRecord(records, browserMdn) = 0
       /\ \E answer \in CallAnswers(HTTP_CREATED) :
            LET out == createRecord(browserMdn, answer) IN
              /\ Applied(out, Call("createRecord", NoRecord, browserMdn,
                                   out.succesful, 1))
              /\ operations' =
                   IF out.succesful
                   THEN [operations EXCEPT !.added = Append(@, browserMdn)]
                   ELSE operations
  /\ i' = i + 1
  /\ InputsUnchanged
  /\ UNCHANGED <<env, pc, records, browsersMdn, j, refetched, exitCode,
                 error>>

\* lines 98-106
Pass1Update ==
  /\ InPass1
  /\ LET browserMdn == browsersMdn[i]
         k == FindRecord(records, browserMdn) IN
       /\ browserMdn.status # "retired"
       /\ k # 0
       /\ NeedsUpdate(records[k], browserMdn)
       /\ \E answer \in CallAnswers(HTTP_OK) :
            LET out == updateRecord(records[k], browserMdn, answer) IN
              /\ Applied(out, Call("updateRecord", records[k], browserMdn,
                                   out.succesful, 1))
              /\ operations' =
                   IF out.succesful
                   THEN [operations EXCEPT !.updated = Append(@, browserMdn)]
                   ELSE operations
  /\ i' = i + 1
  /\ InputsUnchanged
  /\ UNCHANGED <<env, pc, records, browsersMdn, j, refetched, exitCode,
                 error>>

\* lines 98-107 when the test is false: the record is in sync
Pass1InSync ==
  /\ InPass1
  /\ LET browserMdn == browsersMdn[i]
         k == FindRecord(records, browserMdn) IN
       /\ browserMdn.status # "retired"
       /\ k # 0
       /\ ~NeedsUpdate(records[k], browserMdn)
  /\ i' = i + 1
  /\ ServerUnchanged /\ InputsUnchanged
  /\ UNCHANGED <<env, pc, records, browsersMdn, operations, j, refetched,
                 calls, requests, exitCode, error, failures>>

\* line 74: the first loop ends
Pass1Done ==
  /\ pc = "pass1"
  /\ i > Len(browsersMdn)
  /\ pc' = "pass2"
  /\ ServerUnchanged /\ InputsUnchanged
  /\ UNCHANGED <<env, records, browsersMdn, operations, i, j, refetched,
                 calls, requests, exitCode, error, failures>>

InPass2 == pc = "pass2" /\ j <= Len(records)

\* lines 109-120, a record that no entry matches
Pass2Delete ==
  /\ InPass2
  /\ FindBrowser(browsersMdn, records[j]) = 0
  /\ \E answer \in CallAnswers(HTTP_OK) :
       LET out == deleteRecord(records[j], answer) IN
         /\ Applied(out, Call("deleteRecord", records[j], NoEntry,
                              out.succesful, 2))
         /\ operations' =
              IF out.succesful
              THEN [operations EXCEPT !.removed = Append(@, records[j])]
              ELSE operations
  /\ j' = j + 1
  /\ InputsUnchanged
  /\ UNCHANGED <<env, pc, records, browsersMdn, i, refetched, exitCode,
                 error>>

\* lines 109-120, a record that some entry matches
Pass2Keep ==
  /\ InPass2
  /\ FindBrowser(browsersMdn, records[j]) # 0
  /\ j' = j + 1
  /\ ServerUnchanged /\ InputsUnchanged
  /\ UNCHANGED <<env, pc, records, browsersMdn, operations, i, refetched,
                 calls, requests, exitCode, error, failures>>

\* line 109: the second loop ends
Pass2Done ==
  /\ pc = "pass2"
  /\ j > Len(records)
  /\ pc' = "report"
  /\ ServerUnchanged /\ InputsUnchanged
  /\ UNCHANGED <<env, records, browsersMdn, operations, i, j, refetched,
                 calls, requests, exitCode, error, failures>>

\* lines 139-141
OperationsCount ==
  Len(operations.added) + Len(operations.updated) + Len(operations.removed)

\* lines 123-145: nothing was done, update() resolves
ReportNoChanges ==
  /\ pc = "report"
  /\ OperationsCount = 0
  /\ Exit(SUCCESS_RET_VALUE)
  /\ ServerUnchanged /\ InputsUnchanged
  /\ UNCHANGED <<env, records, browsersMdn, operations, i, j, refetched,
                 calls, requests, failures>>

\* a slip: the transition is made without the records being fetched again
ReportChangesWithoutRefetch ==
  /\ pc = "report"
  /\ OperationsCount # 0
  /\ pc' = "transition"
  /\ ServerUnchanged /\ InputsUnchanged
  /\ UNCHANGED <<env, records, browsersMdn, operations, i, j, refetched,
                 calls, requests, exitCode, error, failures>>

\* lines 123-146: something was done, the records are fetched again
ReportChanges ==
  /\ pc = "report"
  /\ OperationsCount # 0
  /\ \E answer \in ListAnswers :
       /\ requests' = Append(requests, Request("GET", 0, NoEntry, "", answer))
       /\ IF ListFailed(answer)
          THEN /\ Rejected("Can't retrieve records")
               /\ UNCHANGED refetched
          ELSE /\ refetched' = TRUE
               /\ pc' = "transition"
               /\ UNCHANGED <<exitCode, error>>
  /\ ServerUnchanged /\ InputsUnchanged
  /\ UNCHANGED <<env, records, browsersMdn, operations, i, j, calls,
                 failures>>

\* a slip: every named environment approves its own changes
IsDevAnyEnvironment == env.ENVIRONMENT \in VALID_ENVIRONMENTS

\* line 149
IsDev == env.ENVIRONMENT = "dev"

\* lines 149-150, then update() resolves
ApproveChanges ==
  /\ pc = "transition"
  /\ IsDev
  /\ \E answer \in CallAnswers(HTTP_OK) :
       LET out == approveChanges(answer) IN
         Applied(out, Call("approveChanges", NoRecord, NoEntry,
                           out.succesful, 0))
  /\ Exit(SUCCESS_RET_VALUE)
  /\ InputsUnchanged
  /\ UNCHANGED <<env, records, browsersMdn, operations, i, j, refetched>>

\* lines 151-153, then update() resolves
RequestReview ==
  /\ pc = "transition"
  /\ ~IsDev
  /\ \E answer \in CallAnswers(HTTP_OK) :
       LET out == requestReview(answer) IN
         Applied(out, Call("requestReview", NoRecord, NoEntry,
                           out.succesful, 0))
  /\ Exit(SUCCESS_RET_VALUE)
  /\ InputsUnchanged
  /\ UNCHANGED <<env, records, browsersMdn, operations, i, j, refetched>>

\* both loops of update() were run to their end: update() is left before
\* them with no operation done, and after them either normally or, when
\* something was done, by the second getRSRecords throwing
Reconciled ==
  \/ pc \in {"report", "transition"}
  \/ pc = "exit" /\ (exitCode = SUCCESS_RET_VALUE \/ OperationsCount # 0)

\* the script is started a second time, on the same published data
NextRun ==
  /\ pc = "exit"
  /\ run = "first"
  /\ run' = "second"
  /\ prev' = [ran |-> TRUE, dry |-> IS_DRY_RUN, reconciled |-> Reconciled,
              exitCode |-> exitCode, operations |-> operations,
              calls |-> calls, store0 |-> store0]
  /\ store0' = store
  /\ collStatus0' = collStatus
  /\ env' = [AUTHORIZATION |-> TRUE, SERVER |-> TRUE,
             ENVIRONMENT |-> env.ENVIRONMENT, DRY_RUN |-> ""]
  /\ pc' = "boot"
  /\ records' = <<>>
  /\ browsersMdn' = <<>>
  /\ operations' = EmptyOperations
  /\ i' = 1
  /\ j' = 1
  /\ refetched' = FALSE
  /\ calls' = <<>>
  /\ requests' = <<>>
  /\ exitCode' = -1
  /\ error' = ""
  /\ ServerUnchanged
  /\ UNCHANGED <<compatData, failures>>

Next ==
  \/ BootMissingAuthorization
  \/ BootMissingServer
  \/ BootInvalidEnvironment
  \/ BootOk
  \/ GetRSRecords
  \/ GetFlatBrowsersMdnData
  \/ GetFlatBrowsersMdnDataThrows
  \/ Pass1DeleteRetired
  \/ Pass1SkipRetired
  \/ Pass1Create
  \/ Pass1Update
  \/ Pass1InSync
  \/ Pass1Done
  \/ Pass2Delete
  \/ Pass2Keep
  \/ Pass2Done
  \/ ReportNoChanges
  \/ ReportChanges
  \/ ApproveChanges
  \/ RequestReview
  \/ NextRun

Spec == Init /\ [][Next]_vars

(* ---------------------------------------------------------------------- *)
(* The same script on published data that has malformed parts: a browser   *)
(* without a name, releases without a status, versions without a digit,    *)
(* the empty version, and a version that is not an integer key             *)
(* ---------------------------------------------------------------------- *)
MalformedVersions == {V90, V91, V1_5, VPreview, <<>>}
MalformedStatuses == {"current", "retired", ""}

MalformedReleaseLists ==
  {rs \in SeqsUpTo([version : MalformedVersions, status : MalformedStatuses],
                   MaxReleases) : DistinctVersions(rs)}

\* the first browser has any of the releases, with or without a name
MalformedChromes ==
  {[browserid |-> "chrome", name |-> n, releases |-> rs] :
     n \in {"Chrome", ""}, rs \in MalformedReleaseLists}

\* a second browser, with one valid release, with or without a name
MalformedFirefoxes ==
  {[browserid |-> "firefox", name |-> n,
    releases |-> <<[version |-> V90, status |-> "current"]>>] :
     n \in {"Firefox", ""}}

MalformedCompatDatas ==
  {<<c>> : c \in MalformedChromes}
    \cup {<<c, f>> : c \in MalformedChromes, f \in MalformedFirefoxes}

MalformedStore ==
  WithIds(<<[browserid |-> "chrome", version |-> V90, name |-> "Old",
             status |-> "current"],
            [browserid |-> "firefox", version |-> V90, name |-> "Firefox",
             status |-> "current"]>>)

InitMalformed ==
  /\ store = MalformedStore
  /\ nextId = Len(store) + 1
  /\ collStatus = "signed"
  /\ compatData \in MalformedCompatDatas
  /\ run = "first"
  /\ env \in [AUTHORIZATION : {TRUE}, SERVER : {TRUE},
              ENVIRONMENT : Environments, DRY_RUN : {""}]
  /\ pc = "boot"
  /\ records = <<>>
  /\ browsersMdn = <<>>
  /\ operations = EmptyOperations
  /\ i = 1
  /\ j = 1
  /\ refetched = FALSE
  /\ calls = <<>>
  /\ requests = <<>>
  /\ exitCode = -1
  /\ error = ""
  /\ failures = 0
  /\ store0 = store
  /\ collStatus0 = collStatus
  /\ prev = NoPrev

SpecMalformed == InitMalformed /\ [][Next]_vars

(* ====================================================================== *)
(* Properties                                                              *)
(* ====================================================================== *)
Live == ~IS_DRY_RUN

OperationFns == {"createRecord", "updateRecord", "deleteRecord"}
TransitionFns == {"approveChanges", "requestReview"}

CallsOf(cs, fns) == {k \in 1..Len(cs) : cs[k].fn \in fns}

\* every create, update and delete among the calls cs succeeded
AllSucceeded(cs) == \A k \in CallsOf(cs, OperationFns) : cs[k].succesful

\* update() returned and the process exited with SUCCESS_RET_VALUE
Completed == pc = "exit" /\ exitCode = SUCCESS_RET_VALUE

\* the composite key of a record or of a source entry
KeyOf(x) == <<x.browserid, x.version>>

Matching(recs, entry) == {k \in 1..Len(recs) : KeyOf(recs[k]) = KeyOf(entry)}

\* the first record of the list with the key of the entry, 0 if there is none
FirstMatch(recs, entry) ==
  IF Matching(recs, entry) = {} THEN 0
  ELSE CHOOSE k \in Matching(recs, entry) :
         \A m \in Matching(recs, entry) : k <= m

\* no two records of the list have the same (browserid, version)
UniqueKeys(recs) ==
  \A a, b \in 1..Len(recs) : a # b => KeyOf(recs[a]) # KeyOf(recs[b])

\* how many times x is in the sequence s
Count(s, x) == Cardinality({k \in 1..Len(s) : s[k] = x})

\* the records st are exactly what the source src asks for
InSync(st, src) ==
  /\ \A n \in 1..Len(src) :
       src[n].status # "retired" =>
         /\ Cardinality(Matching(st, src[n])) = 1
         /\ \A k \in Matching(st, src[n]) :
              st[k].name = src[n].name /\ st[k].status = src[n].status
  /\ \A k \in 1..Len(st) :
       /\ \E n \in 1..Len(src) : KeyOf(st[k]) = KeyOf(src[n])
       /\ \A n \in 1..Len(src) :
            KeyOf(st[k]) = KeyOf(src[n]) => src[n].status # "retired"

AllBucketsFilled(ops) ==
  Len(ops.added) > 0 /\ Len(ops.updated) > 0 /\ Len(ops.removed) > 0

(* C1, as stated: after a live run that completes with every create,      *)
(* update and delete succeeding, whatever the initial record list, the    *)
(* store holds exactly one record, with the entry's name and status, for  *)
(* every non-retired source entry and no record for any other key.        *)
C1_AsStated ==
  (Completed /\ Live /\ AllSucceeded(calls)) => InSync(store, browsersMdn)

(* C1, amended: the same, for the initial record lists in which no two    *)
(* records have the same (browserid, version).                            *)
C1_SyncedAfterCleanRun ==
  (Completed /\ Live /\ AllSucceeded(calls) /\ UniqueKeys(records))
    => InSync(store, browsersMdn)

C1_Witness ==
  /\ Completed /\ Live /\ AllSucceeded(calls) /\ UniqueKeys(records)
  /\ AllBucketsFilled(operations)

\* the first run was live, ran both loops, and all it did succeeded
FirstRunLiveAndClean ==
  /\ run = "second"
  /\ prev.ran /\ ~prev.dry /\ prev.reconciled
  /\ AllSucceeded(prev.calls)

NothingDone ==
  /\ CallsOf(calls, OperationFns) = {}
  /\ \A k \in 1..Len(requests) : requests[k].method = "GET"
  /\ operations = EmptyOperations

(* C2, as stated: a live run that follows a live run on the same source   *)
(* in which every operation succeeded issues no create, update or delete  *)
(* and its added, updated and removed stay empty, whatever the initial    *)
(* record list of the first run.                                          *)
C2_AsStated == (FirstRunLiveAndClean /\ Live) => NothingDone

(* C2, amended: the same, for the initial record lists in which no two    *)
(* records have the same (browserid, version).                            *)
C2_SecondRunDoesNothing ==
  (FirstRunLiveAndClean /\ Live /\ UniqueKeys(prev.store0)) => NothingDone

C2_Witness ==
  /\ FirstRunLiveAndClean /\ Live /\ UniqueKeys(prev.store0)
  /\ AllBucketsFilled(prev.operations)
  /\ Completed

PatchRequests == {k \in 1..Len(requests) : requests[k].method = "PATCH"}

(* C3: in every run at most one transition is requested, only when        *)
(* added + updated + removed is not empty, and it is approveChanges       *)
(* (status "to-sign") exactly when ENVIRONMENT is "dev" and requestReview *)
(* (status "to-review") otherwise.                                        *)
C3_TransitionRule ==
  /\ Cardinality(CallsOf(calls, TransitionFns)) <= 1
  /\ Cardinality(PatchRequests) <= 1
  /\ \A k \in CallsOf(calls, TransitionFns) :
       /\ OperationsCount # 0
       /\ calls[k].fn = "approveChanges" <=> env.ENVIRONMENT = "dev"
       /\ calls[k].fn = "requestReview" <=> env.ENVIRONMENT # "dev"
  /\ \A k \in PatchRequests :
       /\ CallsOf(calls, TransitionFns) # {}
       /\ requests[k].patch = "to-sign" <=> env.ENVIRONMENT = "dev"
       /\ requests[k].patch = "to-review" <=> env.ENVIRONMENT # "dev"
  /\ (pc = "exit" /\ OperationsCount = 0) =>
       CallsOf(calls, TransitionFns) = {} /\ PatchRequests = {}

C3_Witness ==
  /\ Completed /\ Live
  /\ env.ENVIRONMENT = "dev"
  /\ \E k \in CallsOf(calls, TransitionFns) : calls[k].fn = "approveChanges"
  /\ \E k \in PatchRequests : requests[k].patch = "to-sign"

(* C4, as stated: a run in which a create, an update or a delete          *)
(* succeeded, so that its added + updated + removed is not empty and the  *)
(* store was changed, fetches the records again and then requests exactly *)
(* one transition before it terminates.                                   *)
C4_AsStated ==
  (pc = "exit" /\ Live /\ OperationsCount # 0) =>
    /\ refetched
    /\ Cardinality(CallsOf(calls, TransitionFns)) = 1

(* C5: with DRY_RUN equal to "1" only GET requests are sent, the records  *)
(* and the status of the collection stay as they were when the run        *)
(* started, and every client function called reports success.             *)
C5_DryRunSendsNothing ==
  env.DRY_RUN = "1" =>
    /\ \A k \in 1..Len(requests) : requests[k].method = "GET"
    /\ store = store0
    /\ collStatus = collStatus0
    /\ \A k \in 1..Len(calls) : calls[k].succesful

C5_Witness ==
  /\ env.DRY_RUN = "1"
  /\ Completed
  /\ AllBucketsFilled(operations)
  /\ CallsOf(calls, TransitionFns) # {}
  /\ Len(requests) = 2

TransitionKinds(cs) == {cs[k].fn : k \in CallsOf(cs, TransitionFns)}

\* a dry run that ran both loops is followed by a live run that ran both
\* loops too and in which every create, update and delete succeeded
LiveAfterDry ==
  /\ run = "second"
  /\ prev.ran /\ prev.dry /\ prev.reconciled
  /\ Live /\ Reconciled /\ AllSucceeded(calls)

(* C6: a dry run fills added, updated and removed with the same entries,  *)
(* in the same order, as a live run on the same records and the same      *)
(* source in which every operation succeeds, and it takes the same        *)
(* decision about the transition.                                         *)
C6_DryRunTransparency ==
  LiveAfterDry =>
    /\ operations = prev.operations
    /\ (Completed /\ prev.exitCode = SUCCESS_RET_VALUE) =>
         TransitionKinds(calls) = TransitionKinds(prev.calls)

C6_Witness ==
  /\ LiveAfterDry
  /\ Completed /\ prev.exitCode = SUCCESS_RET_VALUE
  /\ AllBucketsFilled(operations)
  /\ TransitionKinds(calls) # {}

\* the calls of fn that are about a record or an entry with the key of x
CallsAbout(fns, x) ==
  {k \in CallsOf(calls, fns) :
     \/ KeyOf(calls[k].record) = KeyOf(x)
     \/ KeyOf(calls[k].entry) = KeyOf(x)}

(* C7: no create and no update is ever issued for a retired source entry; *)
(* and once both loops are over, for every retired source entry that has  *)
(* a matching record exactly one delete was issued for its key, for the   *)
(* first matching record, which is in removed if and only if the delete   *)
(* succeeded.                                                             *)
C7_Retirement ==
  /\ \A n \in 1..Len(browsersMdn) :
       browsersMdn[n].status = "retired" =>
         CallsAbout({"createRecord", "updateRecord"}, browsersMdn[n]) = {}
  /\ Reconciled =>
       \A n \in 1..Len(browsersMdn) :
         (browsersMdn[n].status = "retired"
            /\ FirstMatch(records, browsersMdn[n]) # 0) =>
           LET rsRecord == records[FirstMatch(records, browsersMdn[n])]
               deletes == CallsAbout({"deleteRecord"}, browsersMdn[n]) IN
             /\ Cardinality(deletes) = 1
             /\ \A k \in deletes :
                  /\ calls[k].record = rsRecord
                  /\ Count(operations.removed, rsRecord) =
                       (IF calls[k].succesful THEN 1 ELSE 0)

C7_Witness ==
  /\ Completed /\ Live
  /\ \E n \in 1..Len(browsersMdn) :
       /\ browsersMdn[n].status = "retired"
       /\ Cardinality(Matching(records, browsersMdn[n])) = 2
       /\ Count(operations.removed,
                records[FirstMatch(records, browsersMdn[n])]) = 1

(* C8: no create is ever issued for a key that has a matching record; and *)
(* once both loops are over, for every source entry that is not retired   *)
(* and has no matching record exactly one create was issued for its key,  *)
(* with that entry as payload, and the entry is in added if and only if   *)
(* the create succeeded.                                                  *)
C8_Coverage ==
  /\ \A k \in CallsOf(calls, {"createRecord"}) :
       /\ Matching(records, calls[k].entry) = {}
       /\ calls[k].entry.status # "retired"
  /\ Reconciled =>
       \A n \in 1..Len(browsersMdn) :
         (browsersMdn[n].status # "retired"
            /\ Matching(records, browsersMdn[n]) = {}) =>
           LET creates == CallsAbout({"createRecord"}, browsersMdn[n]) IN
             /\ Cardinality(creates) = 1
             /\ \A k \in creates :
                  /\ calls[k].entry = browsersMdn[n]
                  /\ Count(operations.added, browsersMdn[n]) =
                       (IF calls[k].succesful THEN 1 ELSE 0)
             /\ Live =>
                  Cardinality({k \in 1..Len(requests) :
                                 /\ requests[k].method = "POST"
                                 /\ requests[k].data = browsersMdn[n]}) = 1

C8_Witness ==
  /\ Completed /\ Live
  /\ Len(records) > 0
  /\ Len(operations.added) = 1
  /\ Cardinality(CallsOf(calls, {"createRecord"})) = 2

\* the deletes of the second loop for the record
Pass2Deletes(record) ==
  {k \in CallsOf(calls, {"deleteRecord"}) :
     calls[k].pass = 2 /\ calls[k].record = record}

(* C9: once both loops are over, every record of the initial list whose   *)
(* key is the key of no source entry, retired or not, was the object of   *)
(* one delete in the second loop and is in removed if and only if that    *)
(* delete succeeded; a record whose key is the key of some source entry   *)
(* is never deleted by the second loop.                                   *)
C9_OrphanCleanup ==
  /\ \A k \in 1..Len(records) :
       Matching(browsersMdn, records[k]) # {} => Pass2Deletes(records[k]) = {}
  /\ Reconciled =>
       \A k \in 1..Len(records) :
         Matching(browsersMdn, records[k]) = {} =>
           /\ Cardinality(Pass2Deletes(records[k])) = 1
           /\ \A c \in Pass2Deletes(records[k]) :
                Count(operations.removed, records[k]) =
                  (IF calls[c].succesful THEN 1 ELSE 0)

C9_Witness ==
  /\ Completed /\ Live
  /\ \E a, b \in 1..Len(records) :
       /\ Matching(browsersMdn, records[a]) = {}
       /\ Count(operations.removed, records[a]) = 1
       /\ \E n \in Matching(browsersMdn, records[b]) :
            browsersMdn[n].status = "retired"

\* nothing was done about the record: no call is about it or its key, it is
\* in the store as it was listed, and its key is in none of the buckets
Untouched(record) ==
  /\ CallsAbout(OperationFns, record) = {}
  /\ Count(store, record) = 1
  /\ \A k \in 1..Len(operations.added) :
       KeyOf(operations.added[k]) # KeyOf(record)
  /\ \A k \in 1..Len(operations.updated) :
       KeyOf(operations.updated[k]) # KeyOf(record)
  /\ \A k \in 1..Len(operations.removed) :
       KeyOf(operations.removed[k]) # KeyOf(record)

\* the record has the name and the status of the entry with its key
AlreadyEqual(record, entry) ==
  /\ KeyOf(record) = KeyOf(entry)
  /\ record.name = entry.name
  /\ record.status = entry.status

(* C10, as stated: a stored record whose name and status equal those of   *)
(* the source entry with the same key is the object of no create, update  *)
(* or delete, stays unchanged in the store and is in none of the buckets. *)
C10_AsStated ==
  \A k \in 1..Len(records), n \in 1..Len(browsersMdn) :
    AlreadyEqual(records[k], browsersMdn[n]) => Untouched(records[k])

(* C10, amended: the same for a source entry that is not retired and for  *)
(* the first record of the list that has its key.                         *)
C10_NoOpDetection ==
  \A k \in 1..Len(records), n \in 1..Len(browsersMdn) :
    (/\ AlreadyEqual(records[k], browsersMdn[n])
     /\ browsersMdn[n].status # "retired"
     /\ k = FirstMatch(records, browsersMdn[n]))
      => Untouched(records[k])

\* C10_NoOpDetection without its restriction to the first record of a key
C10_AnyRecordOfTheKey ==
  \A k \in 1..Len(records), n \in 1..Len(browsersMdn) :
    (/\ AlreadyEqual(records[k], browsersMdn[n])
     /\ browsersMdn[n].status # "retired")
      => Untouched(records[k])

C10_Witness ==
  /\ Completed /\ Live
  /\ OperationsCount # 0
  /\ \E k \in 1..Len(records), n \in 1..Len(browsersMdn) :
       /\ AlreadyEqual(records[k], browsersMdn[n])
       /\ browsersMdn[n].status # "retired"
       /\ k = FirstMatch(records, browsersMdn[n])
       /\ Cardinality(Matching(records, browsersMdn[n])) = 2


(* ---------------------------------------------------------------------- *)
(* Failures of single operations (C11)                                     *)
(* ---------------------------------------------------------------------- *)
\* a call without its outcome
Operation(fn, record, entry, pass) ==
  [fn |-> fn, record |-> record, entry |-> entry, pass |-> pass]

\* what the first loop is to do for one source entry, given the record list
PlannedFor(recs, entry) ==
  LET f == FirstMatch(recs, entry) IN
    IF entry.status = "retired"
    THEN IF f = 0 THEN <<>>
         ELSE <<Operation("deleteRecord", recs[f], NoEntry, 1)>>
    ELSE IF f = 0 THEN <<Operation("createRecord", NoRecord, entry, 1)>>
    ELSE IF recs[f].name # entry.name \/ recs[f].status # entry.status
    THEN <<Operation("updateRecord", recs[f], entry, 1)>>
    ELSE <<>>

RECURSIVE PlannedPass1(_, _, _)
PlannedPass1(recs, src, n) ==
  IF n > Len(src) THEN <<>>
  ELSE PlannedFor(recs, src[n]) \o PlannedPass1(recs, src, n + 1)

RECURSIVE PlannedPass2(_, _, _)
PlannedPass2(recs, src, k) ==
  IF k > Len(recs) THEN <<>>
  ELSE (IF \E n \in 1..Len(src) : KeyOf(src[n]) = KeyOf(recs[k])
        THEN <<>>
        ELSE <<Operation("deleteRecord", recs[k], NoEntry, 2)>>)
       \o PlannedPass2(recs, src, k + 1)

\* the operations of a run, in order, as the record list and the source
\* list alone determine them
Planned(recs, src) == PlannedPass1(recs, src, 1) \o PlannedPass2(recs, src, 1)

\* the creates, updates and deletes the run called, in order, without
\* their outcomes
Issued(cs) ==
  LET ops == SelectSeq(cs, LAMBDA c : c.fn \in OperationFns) IN
    [k \in 1..Len(ops) |->
       Operation(ops[k].fn, ops[k].record, ops[k].entry, ops[k].pass)]

FailedCalls(cs) == {k \in CallsOf(cs, OperationFns) : ~cs[k].succesful}

\* the item of a failed call is in no bucket
FailedNotReported ==
  \A k \in FailedCalls(calls) :
    /\ \A n \in 1..Len(operations.added) :
         KeyOf(operations.added[n]) # KeyOf(calls[k].entry)
    /\ \A n \in 1..Len(operations.updated) :
         KeyOf(operations.updated[n]) # KeyOf(calls[k].entry)
    /\ \A n \in 1..Len(operations.removed) :
         operations.removed[n].id # calls[k].record.id

(* C11, as stated: when a create, update or delete of the run was         *)
(* refused, its item is in none of added, updated and removed, the run    *)
(* has issued exactly the operations that the record list and the source  *)
(* list determine, in that order, and it exits with code 0.               *)
C11_AsStated ==
  (pc = "exit" /\ FailedCalls(calls) # {}) =>
    /\ FailedNotReported
    /\ Issued(calls) = Planned(records, browsersMdn)
    /\ exitCode = SUCCESS_RET_VALUE

(* C11, the part that holds of every run: the item of a refused           *)
(* operation is in no bucket, and the operations issued are those that    *)
(* the record list and the source list determine, whatever was answered.  *)
C11_ItemsAndOrder ==
  /\ FailedNotReported
  /\ Reconciled => Issued(calls) = Planned(records, browsersMdn)


(* ---------------------------------------------------------------------- *)
(* Fatal errors (C12)                                                      *)
(* ---------------------------------------------------------------------- *)
MutatingMethods == {"POST", "PUT", "DELETE", "PATCH"}

\* the first request of the run, the initial list, was refused
InitialListFailed == requests # <<>> /\ requests[1].status # HTTP_OK

\* the run was started without AUTHORIZATION, without SERVER, or with an
\* ENVIRONMENT that is set and is none of dev, stage, prod
Misconfigured ==
  \/ ~env.AUTHORIZATION
  \/ ~env.SERVER
  \/ env.ENVIRONMENT \notin VALID_ENVIRONMENTS \cup {""}

(* C12: a run that lacks AUTHORIZATION or SERVER, or whose ENVIRONMENT is *)
(* set outside {dev, stage, prod}, or whose initial list request is       *)
(* answered another status than 200, exits with code 1 and has called no  *)
(* create, update, delete or transition, sent no mutating request and     *)
(* left the store and the collection status as they were.                 *)
C12_FatalBeforeAnyChange ==
  (pc # "boot" /\ (Misconfigured \/ InitialListFailed)) =>
    /\ pc = "exit"
    /\ exitCode = FAILURE_RET_VALUE
    /\ calls = <<>>
    /\ \A k \in 1..Len(requests) : requests[k].method \notin MutatingMethods
    /\ store = store0 /\ collStatus = collStatus0

\* the initial list request of a live run that had operations to issue
\* was refused
C12_Witness ==
  /\ pc = "exit" /\ Live /\ InitialListFailed
  /\ Planned(store0, getFlatBrowsersMdnData(compatData)) # <<>>


(* ---------------------------------------------------------------------- *)
(* Transition failures and exit codes (C13)                                *)
(* ---------------------------------------------------------------------- *)
\* every list request of the run was answered 200
NoListFailed ==
  \A k \in 1..Len(requests) :
    requests[k].method = "GET" => requests[k].status = HTTP_OK

\* the download of the published data was rejected
DownloadFailed == error = "fetch failed"

\* the transition request is the last request of the run, which has
\* exited with code 0 and without error, whatever the request was answered
TransitionIsBestEffort ==
  \A k \in 1..Len(requests) :
    requests[k].method = "PATCH" =>
      /\ k = Len(requests)
      /\ pc = "exit" /\ exitCode = SUCCESS_RET_VALUE /\ error = ""
      /\ Cardinality(CallsOf(calls, TransitionFns)) = 1

Pairs(data) ==
  UNION {{<<b, r>> : r \in 1..Len(data[b].releases)} : b \in 1..Len(data)}

HasDigit(version) == \E k \in 1..Len(version) : version[k] \in Digits

\* the browser has a name, the release a status, the version a digit
WellFormed(data, p) ==
  /\ data[p[1]].name # ""
  /\ data[p[1]].releases[p[2]].status # ""
  /\ HasDigit(data[p[1]].releases[p[2]].version)

EntryAt(data, p) ==
  [browserid |-> data[p[1]].browserid,
   name |-> data[p[1]].name,
   status |-> data[p[1]].releases[p[2]].status,
   version |-> data[p[1]].releases[p[2]].version]

\* one entry for each well-formed pair and no other entry
OneEntryPerWellFormedPair(out, data) ==
  LET wf == {p \in Pairs(data) : WellFormed(data, p)} IN
    /\ Len(out) = Cardinality(wf)
    /\ \A p \in wf : \E n \in 1..Len(out) : out[n] = EntryAt(data, p)
    /\ \A n \in 1..Len(out) : \E p \in wf : out[n] = EntryAt(data, p)

PairOf(data, entry) == CHOOSE p \in Pairs(data) : EntryAt(data, p) = entry

\* p comes before q in the text of the data
TextBefore(p, q) == p[1] < q[1] \/ (p[1] = q[1] /\ p[2] < q[2])

\* p comes before q when the data is enumerated: browsers in the order of
\* the text; the releases of a browser with the versions that are integer
\* keys first, by ascending value, then the others in the order of the text
EnumeratedBefore(data, p, q) ==
  \/ p[1] < q[1]
  \/ /\ p[1] = q[1]
     /\ LET v == data[p[1]].releases[p[2]].version
            w == data[q[1]].releases[q[2]].version IN
          IF IsIntegerKey(v) /\ IsIntegerKey(w)
          THEN NumericValue(v) < NumericValue(w)
          ELSE IF IsIntegerKey(v) THEN TRUE
          ELSE IF IsIntegerKey(w) THEN FALSE
          ELSE p[2] < q[2]

\* getFlatBrowsersMdnData has returned
Normalized == pc \in {"pass1", "pass2", "report", "transition"} \/ Completed

MethodOf(fn) ==
  CASE fn = "createRecord" -> "POST"
    [] fn = "updateRecord" -> "PUT"
    [] fn = "deleteRecord" -> "DELETE"
    [] fn \in TransitionFns -> "PATCH"

ListRequests == {k \in 1..Len(requests) : requests[k].method = "GET"}

\* the calls of the run: those of the first loop, then those of the
\* second loop, then at most one transition
CallsInOrder ==
  \A a, b \in 1..Len(calls) :
    a < b =>
      /\ calls[a].fn \in OperationFns
      /\ calls[a].pass = 2 => calls[b].pass # 1

\* the requests of the run: the initial list, answered 200 before anything
\* else is sent; one request for each create, update and delete called, in
\* the order of the calls; then the second list; then the transition
RequestsInOrder ==
  /\ \A k \in 1..Len(requests) :
       k > 1 => requests[1].method = "GET" /\ requests[1].status = HTTP_OK
  /\ \A k \in ListRequests :
       k > 1 =>
         /\ pc \in {"transition", "exit"}
         /\ \A m \in 1..(k - 1) : requests[m].method # "PATCH"
         /\ \A m \in (k + 1)..Len(requests) : requests[m].method = "PATCH"
  /\ \A k \in 1..Len(requests) :
       requests[k].method = "PATCH" =>
         /\ k = Len(requests)
         /\ k > 2
         /\ requests[k - 1].method = "GET"
         /\ requests[k - 1].status = HTTP_OK
  /\ Live =>
       \A k \in CallsOf(calls, OperationFns) :
         /\ k + 1 <= Len(requests)
         /\ requests[k + 1].method = MethodOf(calls[k].fn)

\* a transition is called only after the records were fetched again
TransitionAfterRefetch ==
  CallsOf(calls, TransitionFns) # {} =>
    /\ refetched
    /\ Cardinality(ListRequests) = 2

(* C15: in every run the initial list request is answered before any      *)
(* mutating request is sent, every operation of the first loop is issued  *)
(* before any delete of the second loop, the second list request follows  *)
(* the last create, update or delete, and the transition, when there is   *)
(* one, follows that list request and is the last call of the run.        *)
C15_CallOrder ==
  /\ CallsInOrder
  /\ RequestsInOrder
  /\ TransitionAfterRefetch

\* a live run made operations in both loops and then its transition
C15_Witness ==
  /\ Completed /\ Live
  /\ \E a, b \in CallsOf(calls, OperationFns) :
       calls[a].pass = 1 /\ calls[b].pass = 2
  /\ requests[Len(requests)].method = "PATCH"


(* ---------------------------------------------------------------------- *)
(* Updates (C16)                                                           *)
(* ---------------------------------------------------------------------- *)
Differs(record, entry) ==
  record.status # entry.status \/ record.name # entry.name

\* the source entry is not retired and the first record of its key differs
\* from it by the status or by the name
ToUpdate(recs, entry) ==
  /\ entry.status # "retired"
  /\ FirstMatch(recs, entry) # 0
  /\ Differs(recs[FirstMatch(recs, entry)], entry)

\* every record the run found still has the key it had
KeysKept ==
  \A a \in 1..Len(store), b \in 1..Len(store0) :
    store[a].id = store0[b].id => KeyOf(store[a]) = KeyOf(store0[b])

(* C16: every update called is for a source entry that is not retired     *)
(* and whose first matching record differs from it by the status or the   *)
(* name; it is addressed to the id of that record and carries that        *)
(* entry, whose key is the record's, so that a stored record keeps its    *)
(* key; once both loops are over each such entry had exactly one update;  *)
(* and the entry is in updated if and only if its update succeeded.       *)
C16_Updates ==
  /\ \A k \in CallsOf(calls, {"updateRecord"}) :
       /\ \E n \in 1..Len(browsersMdn) : browsersMdn[n] = calls[k].entry
       /\ ToUpdate(records, calls[k].entry)
       /\ calls[k].record = records[FirstMatch(records, calls[k].entry)]
       /\ KeyOf(calls[k].entry) = KeyOf(calls[k].record)
       /\ Count(operations.updated, calls[k].entry) =
            (IF calls[k].succesful THEN 1 ELSE 0)
       /\ Live =>
            /\ requests[k + 1].method = "PUT"
            /\ requests[k + 1].id = calls[k].record.id
            /\ requests[k + 1].data = calls[k].entry
  /\ \A n \in 1..Len(operations.updated) :
       \E k \in CallsOf(calls, {"updateRecord"}) :
         calls[k].entry = operations.updated[n]
  /\ KeysKept
  /\ Reconciled =>
       \A n \in 1..Len(browsersMdn) :
         ToUpdate(records, browsersMdn[n]) =>
           Cardinality(CallsAbout({"updateRecord"}, browsersMdn[n])) = 1

\* a live run updated one record and was refused the update of another
C16_Witness ==
  /\ Completed /\ Live
  /\ Cardinality(CallsOf(calls, {"updateRecord"})) = 2
  /\ Len(operations.updated) = 1
  /\ store # store0


(* ---------------------------------------------------------------------- *)
(* Self-healing (C17)                                                      *)
(* ---------------------------------------------------------------------- *)
KeysOf(st, src) ==
  {KeyOf(st[k]) : k \in 1..Len(st)} \cup {KeyOf(src[n]) : n \in 1..Len(src)}

\* the store is not what the source asks for the key: a key with an entry
\* that is not retired has one record, with the entry's name and status;
\* any other key has no record
DisagreesAt(st, src, key) ==
  LET held == {k \in 1..Len(st) : KeyOf(st[k]) = key}
      asked == {n \in 1..Len(src) :
                  KeyOf(src[n]) = key /\ src[n].status # "retired"}
  IN IF asked = {} THEN held # {}
     ELSE \/ Cardinality(held) # 1
          \/ \E k \in held, n \in asked :
               st[k].name # src[n].name \/ st[k].status # src[n].status

\* an operation about the key was refused in this run
FailedAt(key) ==
  \E k \in FailedCalls(calls) :
    KeyOf(calls[k].record) = key \/ KeyOf(calls[k].entry) = key

\* a live run has run both loops and exited
LiveRunOver == pc = "exit" /\ Live /\ Reconciled

\* the store disagrees with the source only where an operation was refused
OnlyFailedKeysDisagree ==
  \A key \in KeysOf(store, browsersMdn) :
    DisagreesAt(store, browsersMdn, key) => FailedAt(key)

\* the previous run was live and some of its operations were refused
AfterFailedRun ==
  /\ run = "second"
  /\ prev.ran /\ ~prev.dry /\ prev.reconciled
  /\ FailedCalls(prev.calls) # {}

(* C17, as stated: after a live run in which some operations were         *)
(* refused the store disagrees with the source only at keys whose         *)
(* operation was refused in that run, and after a following live run in   *)
(* which every operation succeeds the store is in sync with the source.   *)
C17_AsStated ==
  /\ (LiveRunOver /\ FailedCalls(calls) # {}) => OnlyFailedKeysDisagree
  /\ (LiveRunOver /\ AfterFailedRun /\ AllSucceeded(calls)) =>
       InSync(store, browsersMdn)

(* C17, amended: the same, for the runs whose initial record list has no  *)
(* two records with the same (browserid, version).                        *)
C17_SelfHealing ==
  /\ (LiveRunOver /\ FailedCalls(calls) # {} /\ UniqueKeys(records)) =>
       OnlyFailedKeysDisagree
  /\ (LiveRunOver /\ AfterFailedRun /\ AllSucceeded(calls)
        /\ UniqueKeys(records)) =>
       InSync(store, browsersMdn)

\* the second run issued again, with success, what the first was refused
C17_Witness ==
  /\ LiveRunOver /\ AfterFailedRun /\ AllSucceeded(calls)
  /\ UniqueKeys(records)
  /\ CallsOf(calls, OperationFns) # {}
  /\ OperationsCount > 0
  /\ Len(prev.operations.added) + Len(prev.operations.updated)
       + Len(prev.operations.removed) > 0
  /\ InSync(store, browsersMdn)


(* ---------------------------------------------------------------------- *)
(* Records with the same key (C18)                                         *)
(* ---------------------------------------------------------------------- *)
\* no call and no request of the run is about the record, which is still
\* in the store as it was
LeftAlone(record) ==
  /\ \A k \in CallsOf(calls, OperationFns) : calls[k].record.id # record.id
  /\ \A k \in 1..Len(requests) : requests[k].id # record.id
  /\ \E a \in 1..Len(store) : store[a] = record

(* C18: when several records have the (browserid, version) of a source    *)
(* entry, the run calls at most one operation for that key, in the first  *)
(* loop, a delete or an update of the first of these records in the       *)
(* order of the list, decided on that record alone: a delete when the     *)
(* entry is retired, an update when the record differs from the entry;    *)
(* the other records of the key get no operation in either loop.          *)
C18_FirstOfDuplicates ==
  \A n \in 1..Len(browsersMdn) :
    LET entry == browsersMdn[n]
        same == Matching(records, entry)
        about == CallsAbout(OperationFns, entry) IN
      (pc # "pass1" \/ i > n) /\ Cardinality(same) > 1 =>
        /\ Cardinality(about) <= 1
        /\ \A k \in about :
             /\ calls[k].pass = 1
             /\ calls[k].record = records[FirstMatch(records, entry)]
             /\ calls[k].fn =
                  (IF entry.status = "retired" THEN "deleteRecord"
                   ELSE "updateRecord")
        /\ about # {} <=>
             \/ entry.status = "retired"
             \/ Differs(records[FirstMatch(records, entry)], entry)
        /\ \A k \in same \ {FirstMatch(records, entry)} :
             LeftAlone(records[k])

\* a live run updated the first of two records of a key and left the
\* second, which differs from the entry too, as it was
C18_Witness ==
  /\ Completed /\ Live
  /\ Len(records) = 2
  /\ KeyOf(records[1]) = KeyOf(records[2])
  /\ \E n \in 1..Len(browsersMdn) :
       /\ KeyOf(browsersMdn[n]) = KeyOf(records[1])
       /\ Differs(records[2], browsersMdn[n])
       /\ Count(operations.updated, browsersMdn[n]) = 1
  /\ store[2] = records[2]


(* ---------------------------------------------------------------------- *)
(* One operation for each record and for each key (C19)                    *)
(* ---------------------------------------------------------------------- *)
\* the keys of the items of a bucket
BucketKeys(bucket) == {KeyOf(bucket[n]) : n \in 1..Len(bucket)}

\* no two items of the bucket have the same key
NoKeyTwice(bucket) ==
  \A a, b \in 1..Len(bucket) : a # b => KeyOf(bucket[a]) # KeyOf(bucket[b])

(* C19: in a run no record id is the target of two updates or deletes,    *)
(* called or sent; no (browserid, version) is in more than one of added,  *)
(* updated and removed; and no key is twice in added or twice in updated. *)
C19_OneOperationEach ==
  /\ \A a, b \in CallsOf(calls, {"updateRecord", "deleteRecord"}) :
       a # b => calls[a].record.id # calls[b].record.id
  /\ \A a, b \in 1..Len(requests) :
       (a # b /\ requests[a].method \in {"PUT", "DELETE"}
              /\ requests[b].method \in {"PUT", "DELETE"})
         => requests[a].id # requests[b].id
  /\ BucketKeys(operations.added) \cap BucketKeys(operations.updated) = {}
  /\ BucketKeys(operations.added) \cap BucketKeys(operations.removed) = {}
  /\ BucketKeys(operations.updated) \cap BucketKeys(operations.removed) = {}
  /\ NoKeyTwice(operations.added)
  /\ NoKeyTwice(operations.updated)

\* a live run deleted a record in each loop and created another
C19_Witness ==
  /\ Completed /\ Live
  /\ Len(operations.removed) = 2
  /\ Len(operations.added) = 1
  /\ \E a, b \in CallsOf(calls, {"deleteRecord"}) :
       calls[a].pass = 1 /\ calls[b].pass = 2

====
